---- MODULE Spec2Model ----
(***************************************************************************)
(* State-machine model of the orchestration engine                         *)
(* (backend/core/OrchestrationGraph_pure.py) together with the value types *)
(* it is built on (pValues_pure.py, Activity_pure.py,                       *)
(* InstantiatedAct_pure.py).                                                *)
(*                                                                         *)
(* Numbers.  pVal components are floats in the source; here they are       *)
(* integers counting hundredths (0.01).  A squared distance is therefore   *)
(* an exact integer, and a distance is the integer square root of the      *)
(* squared distance scaled by 10^4, i.e. it counts ten-thousandths         *)
(* (0.0001).  Comparisons against THRESHOLD (0.05 = 500 ten-thousandths)   *)
(* are exact, because d > 0.05 iff d^2 > 25 hundredths^2.                  *)
(* Python's None is the empty sequence << >>, a present optional value v   *)
(* is <<v>>.  Positions are 0-based as in the source; the element at       *)
(* Python index i of a list l is l[i + 1].                                 *)
(***************************************************************************)
EXTENDS Integers, Sequences, FiniteSets, TLC

\* ------------------------------------------------------------------ bounds
MaxLen == 2         \* longest timeline explored
MaxLib == 3         \* largest catalog explored
MaxClock == 6       \* latest start offset from which a further insert is explored

\* ------------------------------------------------------- program constants
PRECISION == 1      \* 0.01 in hundredths
THRESHOLD == 500    \* 0.05 in ten-thousandths
DistScale == 100 * 100   \* (ten-thousandths per hundredth)^2
InitLib == MaxLib - 1    \* catalog length when the engine is constructed

None == << >>
Some(v) == <<v>>

Max2(a, b) == IF a >= b THEN a ELSE b
Min2(a, b) == IF a <= b THEN a ELSE b

\* ------------------------------------------------------------------- pVal
\* a needToReach that takes the component-wise minimum
needToReach_minimum(self, other) ==
    [idx \in 1..Len(self) |-> Min2(self[idx], other[idx])]

needToReach(self, other) ==
    [idx \in 1..Len(self) |-> Max2(self[idx], other[idx])]

plus(self, effect) ==
    [idx \in 1..Len(self) |-> self[idx] + effect[idx]]

isPast(self, other) ==
    \A i \in 1..Len(self) : ~(self[i] + PRECISION < other[i])

\* distance2 from component i on: every component counts
RECURSIVE distance2_from(_, _, _)
distance2_from(self, other, i) ==
    IF i > Len(self) THEN 0
    ELSE (self[i] - other[i]) * (self[i] - other[i])
         + distance2_from(self, other, i + 1)

RECURSIVE distance2_onlyForward_from(_, _, _)
distance2_onlyForward_from(self, other, i) ==
    IF i > Len(self) THEN 0
    ELSE (IF self[i] < other[i]
          THEN (self[i] - other[i]) * (self[i] - other[i])
          ELSE 0)
         + distance2_onlyForward_from(self, other, i + 1)

distance2_onlyForward(self, other) == distance2_onlyForward_from(self, other, 1)

\* math.sqrt, rounded down to the ten-thousandth
RECURSIVE SqrtSearch(_, _, _)
SqrtSearch(x, lo, hi) ==
    IF lo >= hi THEN lo
    ELSE LET mid == (lo + hi + 1) \div 2
         IN  IF mid * mid <= x THEN SqrtSearch(x, mid, hi)
                               ELSE SqrtSearch(x, lo, mid - 1)

sqrt(x) == IF x = 0 THEN 0 ELSE SqrtSearch(x, 0, 40000)

distance_onlyForward(self, other) ==
    sqrt(distance2_onlyForward(self, other) * DistScale)

\* --------------------------------------------------------------- InterPVal
\* linInterp followed by the clamp of get(): the interpolation factor as the
\* fraction num/den with 0 <= num <= den
\* the interpolation factor without the clamp of get()
linInterpNum_unclamped(mi, ma, val) ==
    IF ma - mi <= 0 THEN 0 ELSE val - mi

linInterpNum(mi, ma, val) ==
    IF ma - mi <= 0 THEN 0
    ELSE Max2(0, Min2(ma - mi, val - mi))

get(act, time) ==
    IF act.maxT = act.minT THEN act.maxEffect
    ELSE [i \in 1..Len(act.minEffect) |->
            act.minEffect[i]
            + (linInterpNum(act.minT, act.maxT, time)
               * (act.maxEffect[i] - act.minEffect[i]))
              \div Max2(1, act.maxT - act.minT)]

default(act) == get(act, act.defT)

\* ------------------------------------------------------------ ActivityData
ActivityData(idx, pcond, minEffect, maxEffect, minT, maxT, defT, maxRep, defPlane) ==
    [idx |-> idx, pcond |-> pcond, minEffect |-> minEffect,
     maxEffect |-> maxEffect, minT |-> minT, maxT |-> maxT, defT |-> defT,
     maxRepetition |-> maxRep, defPlane |-> defPlane]

\* The activity definitions the catalog is filled from, by catalog slot.
CatalogRow(n) ==
    CASE n % 4 = 0 -> ActivityData(n, <<0, 0>>, <<10, 0>>, <<30, 10>>, 1, 3, 2, 2, 0)
      [] n % 4 = 1 -> ActivityData(n, <<20, 20>>, <<0, 40>>, <<0, 40>>, 2, 2, 2, 1, 1)
      [] n % 4 = 2 -> ActivityData(n, <<0, 30>>, <<40, 0>>, <<40, 0>>, 1, 1, 1, 1, 2)
      [] OTHER     -> ActivityData(n, <<10, 10>>, <<4, 4>>, <<4, 4>>, 3, 3, 3, 3, 0)

\* -------------------------------------------------------------------- state
VARIABLES
    activities,                  \* Library.activities
    tBudget, start, goal,        \* constructor arguments of the engine
    reached, totTime,
    listOfFixedInstancedAct,
    quantities,
    hardGapsCount, hardGapsList, remainingGapsDistance,
    gapFocus, currentListForSelectedGap,
    pickleFile,                  \* what saveAsFile wrote, None before the first save
    args, value,                 \* a function applied on its own: its operands and
                                 \* what it returned, None before the call
    last,                        \* the last call: operation and outcome
    saved                        \* after a successful insert: the engine before it
                                 \* and the position asked for

libVars == <<activities>>
cfgVars == <<tBudget, start, goal>>
derivedVars == <<reached, totTime, hardGapsCount, hardGapsList, remainingGapsDistance>>
focusVars == <<gapFocus, currentListForSelectedGap>>
fileVars == <<pickleFile>>
calcVars == <<args, value>>
engineVars == <<reached, totTime, listOfFixedInstancedAct, quantities,
                hardGapsCount, hardGapsList, remainingGapsDistance,
                gapFocus, currentListForSelectedGap>>
vars == <<activities, tBudget, start, goal, reached, totTime,
          listOfFixedInstancedAct, quantities, hardGapsCount, hardGapsList,
          remainingGapsDistance, gapFocus, currentListForSelectedGap,
          pickleFile, args, value, last, saved>>

\* ----------------------------------------------------------------- Library
getLength == Len(activities)

\* a lookup whose range check is off by one at the upper end
getActData_offByOne(idx) ==
    IF 0 <= idx /\ idx <= Len(activities)
    THEN Some(activities[IF idx < Len(activities) THEN idx + 1 ELSE Len(activities)])
    ELSE None

\* Library.getActData: the activity, or None
getActData(idx) ==
    IF 0 <= idx /\ idx < Len(activities) THEN Some(activities[idx + 1]) ELSE None

\* ------------------------------------------------------ InstantiatedActData
InstantiatedActData(actData, time, plane, startsAfter, pValStart) ==
    LET ps == IF ~isPast(pValStart, actData.pcond)
              THEN needToReach(pValStart, actData.pcond)
              ELSE pValStart
    IN  [actData |-> actData, time |-> time, plane |-> plane,
         startsAfter |-> startsAfter, pValStart |-> ps,
         pValEnd |-> plus(ps, get(actData, time))]

\* an adjust that starts from the incoming state without raising it to the
\* prerequisite
adjust_noPrerequisite(inst, newStartsAfter, newPValStart) ==
    [inst EXCEPT !.startsAfter = newStartsAfter,
                 !.pValStart = newPValStart,
                 !.pValEnd = plus(newPValStart, get(inst.actData, inst.time))]

\* an adjust that computes the end state from the start state the entry had
\* before the call
adjust_endFromOldStart(inst, newStartsAfter, newPValStart) ==
    [inst EXCEPT !.startsAfter = newStartsAfter,
                 !.pValStart = needToReach(newPValStart, inst.actData.pcond),
                 !.pValEnd = plus(inst.pValStart, get(inst.actData, inst.time))]

adjust(inst, newStartsAfter, newPValStart) ==
    LET ps == needToReach(newPValStart, inst.actData.pcond)
    IN  [inst EXCEPT !.startsAfter = newStartsAfter,
                     !.pValStart = ps,
                     !.pValEnd = plus(ps, get(inst.actData, inst.time))]

endsAfter(inst) == inst.startsAfter + inst.time

\* ----------------------------------------------------- state recalculation
\* The loop of reEvaluateData from entry i on: the adjusted entries, the state
\* and the time after the last one.
RECURSIVE reEvaluateLoop(_, _, _, _)
reEvaluateLoop(list, i, currentState, cumulativeTime) ==
    IF i > Len(list)
    THEN [list |-> list, reached |-> currentState, totTime |-> cumulativeTime]
    ELSE LET inst == adjust(list[i], cumulativeTime, currentState)
         IN  reEvaluateLoop([list EXCEPT ![i] = inst], i + 1,
                            inst.pValEnd, cumulativeTime + inst.time)

\* a threshold test that also counts a distance of exactly THRESHOLD
isHard_inclusive(distance) == distance >= THRESHOLD

\* a threshold test that lets distances of up to twice THRESHOLD pass
isHard_doubled(distance) == distance > 2 * THRESHOLD

\* "if distance > THRESHOLD"
isHard(distance) == distance > THRESHOLD

\* The loop "for i in range(len - 1)" of evaluate_gaps from i on (0-based)
RECURSIVE gapsBetween(_, _, _)
gapsBetween(list, i, acc) ==
    IF i >= Len(list) - 1 THEN acc
    ELSE LET distance == distance_onlyForward(list[i + 1].pValEnd,
                                              list[i + 2].actData.pcond)
         IN  gapsBetween(list, i + 1,
                IF isHard(distance)
                THEN [gaps |-> Append(acc.gaps, i + 1),
                      totalDistance |-> acc.totalDistance + distance]
                ELSE acc)

\* an evaluate_gaps that adds the distance before the first and after the last
\* entry to the total whether or not it is above the threshold
evaluate_gaps_addsBeforeTest(list, st, gl) ==
    IF Len(list) = 0
    THEN LET distance == distance_onlyForward(st, gl)
         IN  [gaps |-> IF isHard(distance) THEN <<0>> ELSE << >>,
              totalDistance |-> distance]
    ELSE LET d0 == distance_onlyForward(st, list[1].actData.pcond)
             a0 == [gaps |-> IF isHard(d0) THEN <<0>> ELSE << >>,
                    totalDistance |-> d0]
             a1 == gapsBetween(list, 0, a0)
             dl == distance_onlyForward(list[Len(list)].pValEnd, gl)
         IN  [gaps |-> IF isHard(dl) THEN Append(a1.gaps, Len(list)) ELSE a1.gaps,
              totalDistance |-> a1.totalDistance + dl]

evaluate_gaps(list, st, gl) ==
    IF Len(list) = 0
    THEN LET distance == distance_onlyForward(st, gl)
         IN  IF isHard(distance)
             THEN [gaps |-> <<0>>, totalDistance |-> distance]
             ELSE [gaps |-> << >>, totalDistance |-> 0]
    ELSE LET d0 == distance_onlyForward(st, list[1].actData.pcond)
             a0 == IF isHard(d0)
                   THEN [gaps |-> <<0>>, totalDistance |-> d0]
                   ELSE [gaps |-> << >>, totalDistance |-> 0]
             a1 == gapsBetween(list, 0, a0)
             dl == distance_onlyForward(list[Len(list)].pValEnd, gl)
         IN  IF isHard(dl)
             THEN [gaps |-> Append(a1.gaps, Len(list)),
                   totalDistance |-> a1.totalDistance + dl]
             ELSE a1

\* reEvaluateData on a timeline that has just been changed to `list`
reEvaluateData(list) ==
    LET w == reEvaluateLoop(list, 1, start, 0)
        g == evaluate_gaps(w.list, start, goal)
    IN  /\ listOfFixedInstancedAct' = w.list
        /\ reached' = w.reached
        /\ totTime' = w.totTime
        /\ hardGapsList' = g.gaps
        /\ hardGapsCount' = Len(g.gaps)
        /\ remainingGapsDistance' = g.totalDistance

\* ---------------------------------------------------------- Python lists
\* l[i] of Python as a position of the sequence, 0 when it raises IndexError
PyIndex(l, i) ==
    IF 0 <= i /\ i < Len(l) THEN i + 1
    ELSE IF i < 0 /\ Len(l) + i >= 0 THEN Len(l) + i + 1
    ELSE 0

\* list.insert(i, x): the 0-based position x ends up at
PyInsertPos(l, i) ==
    IF i < 0 THEN Max2(0, Len(l) + i) ELSE Min2(i, Len(l))

InsertAt(l, p, x) == SubSeq(l, 1, p) \o <<x>> \o SubSeq(l, p + 1, Len(l))
RemoveAt(l, p) == SubSeq(l, 1, p) \o SubSeq(l, p + 2, Len(l))

\* the engine fields a round trip is compared on
Snapshot ==
    [reached |-> reached, totTime |-> totTime,
     listOfFixedInstancedAct |-> listOfFixedInstancedAct,
     quantities |-> quantities, hardGapsList |-> hardGapsList,
     remainingGapsDistance |-> remainingGapsDistance]

Returned(op, ret) == [op |-> op, ret |-> ret]
NoCall == Returned("__init__", "None")

\* --------------------------------------------------------------------- Init
TimeBudgets == {6}
Starts == {<<0, 0>>}
Goals == {<<40, 40>>, <<3, 4>>}
FarGoals == Goals \cup {<<40, 80>>}
TightBudgets == TimeBudgets \cup {3}

\* A library file after its header line, one number per row: n >= 0 is a row
\* holding the definition CatalogRow(n), BlankRow an empty line, MalformedRow a
\* line ActivityData cannot parse.
BlankRow == 0 - 1
MalformedRow == 0 - 2

\* "for idx, row in enumerate(reader)" of Library.__init__ from row idx on
RECURSIVE LibraryLoop(_, _, _)
LibraryLoop(rows, idx, acts) ==
    IF idx >= Len(rows) THEN acts
    ELSE LibraryLoop(rows, idx + 1,
            IF rows[idx + 1] = BlankRow \/ rows[idx + 1] = MalformedRow
            THEN acts
            ELSE Append(acts, [CatalogRow(rows[idx + 1]) EXCEPT !.idx = idx]))

Library(rows) == LibraryLoop(rows, 0, << >>)

\* OrchestrationGraphData.__init__ over the library already loaded
EngineInit(budgets, goals) ==
    /\ tBudget \in budgets
    /\ start \in Starts
    /\ goal \in goals
    /\ reached = start
    /\ listOfFixedInstancedAct = << >>
    /\ quantities = [n \in 1..getLength |-> 0]
    /\ totTime = 0
    /\ hardGapsCount = 1
    /\ remainingGapsDistance = distance_onlyForward(start, goal)
    /\ hardGapsList = <<0>>
    /\ gapFocus = None
    /\ currentListForSelectedGap = << >>
    /\ pickleFile = None
    /\ last = NoCall
    /\ saved = None

\* Library loaded from a file without gaps, then the engine constructed
Init ==
    /\ activities = Library([n \in 1..InitLib |-> n - 1])
    /\ EngineInit(TimeBudgets, Goals)
    /\ args = None
    /\ value = None

\* The library files an engine is constructed over: without gaps, with an
\* empty line before the first row, with a row that does not parse
CsvFiles ==
    {[n \in 1..InitLib |-> n - 1],
     <<BlankRow>> \o [n \in 1..InitLib |-> n - 1],
     <<0, MalformedRow>> \o [n \in 1..(InitLib - 1) |-> n]}

InitFromFile ==
    /\ activities \in {Library(rows) : rows \in CsvFiles}
    /\ EngineInit(TightBudgets, FarGoals)
    /\ args = None
    /\ value = None

\* --------------------------------------------------------------- Efficience
\* Scores are quotients distance / minutes; they are kept as the integer
\* distance * ScoreScale / minutes, exact for every duration dividing ScoreScale.
ScoreScale == 2 * 2 * 3 * 5

\* a distRemoved that does not charge the way up to the prerequisite
distRemoved_ignoresWouldStart(fromStartToGoal, fromStartToWouldStart, fromWouldEndToGoal) ==
    fromStartToGoal - fromWouldEndToGoal

distRemoved(fromStartToGoal, fromStartToWouldStart, fromWouldEndToGoal) ==
    fromStartToGoal - fromStartToWouldStart - fromWouldEndToGoal

distRemoved_over_usedTime(fromStartToGoal, fromStartToWouldStart, fromWouldEndToGoal, actTime) ==
    LET dist == distRemoved(fromStartToGoal, fromStartToWouldStart, fromWouldEndToGoal)
    IN  IF actTime = 0 THEN 0 ELSE (dist * ScoreScale) \div actTime

getEff(fromStartToGoal, fromStartToWouldStart, fromWouldEndToGoal, actTime) ==
    distRemoved_over_usedTime(fromStartToGoal, fromStartToWouldStart,
                              fromWouldEndToGoal, actTime)

\* ---------------------------------------------------------- ContextActivity
NoProgressMargin == 10    \* 0.001 in ten-thousandths

ContextActivity(actData, score, exhausted, tooLong, noProgress) ==
    [myActData |-> actData, myScore |-> score, isBest |-> FALSE,
     exhausted |-> exhausted, tooLong |-> tooLong, noProgress |-> noProgress]

\* a takeable test that forgets the time budget
okeyToTake_ignoresTooLong(ctx) == ~ctx.noProgress /\ ~ctx.exhausted

\* a takeable test that forgets the repetition limit
okeyToTake_ignoresExhausted(ctx) == ~ctx.noProgress /\ ~ctx.tooLong

okeyToTake(ctx) == ~ctx.noProgress /\ ~ctx.exhausted /\ ~ctx.tooLong

\* -------------------------------------------- gap evaluation for recommendations
\* evaluateFor raises IndexError where it reads quantities[actIdx] past the end
evaluateForRaises(actIdx) ==
    getActData(actIdx) # None /\ PyIndex(quantities, actIdx) = 0

\* evaluateFor(actIdx, position) for an actIdx of the catalog, position >= 0
evaluateFor(actIdx, position) ==
    LET actData == getActData(actIdx)[1]
        list == listOfFixedInstancedAct
        currentState == IF position = 0 THEN start
                        ELSE IF position <= Len(list) THEN list[position].pValEnd
                        ELSE reached
        nextPrecond == IF position < Len(list) THEN list[position + 1].actData.pcond
                       ELSE goal
        exhausted == quantities[PyIndex(quantities, actIdx)] >= actData.maxRepetition
        remainingTime == tBudget - totTime
        tooLong == actData.defT > remainingTime
        stateAfterPrereqs == needToReach(currentState, actData.pcond)
        stateAfterActivity == plus(stateAfterPrereqs, default(actData))
        distBefore == distance_onlyForward(currentState, nextPrecond)
        distAfter == distance_onlyForward(stateAfterActivity, nextPrecond)
    IN  IF distAfter >= distBefore - NoProgressMargin
        THEN ContextActivity(actData, None, exhausted, tooLong, TRUE)
        ELSE ContextActivity(actData,
                 Some(getEff(distBefore,
                             distance_onlyForward(currentState, stateAfterPrereqs),
                             distAfter, actData.defT)),
                 exhausted, tooLong, FALSE)

\* an evaluation that leaves the position it was asked about as the gap focus
evaluateForCall_setsFocus(actIdx, position) ==
    /\ last' = Returned("evaluateFor",
                 IF getActData(actIdx) = None THEN "None"
                 ELSE IF evaluateForRaises(actIdx) THEN "IndexError"
                 ELSE "ContextActivity")
    /\ saved' = None
    /\ gapFocus' = Some(position)
    /\ UNCHANGED <<libVars, cfgVars, derivedVars, listOfFixedInstancedAct,
                   quantities, currentListForSelectedGap>>

\* a call of evaluateFor(actIdx, position), position >= 0: it returns None for
\* an actIdx outside the library, raises where quantities has no slot, and
\* returns a ContextActivity otherwise; no field of the engine is assigned
evaluateForCall(actIdx, position) ==
    /\ last' = Returned("evaluateFor",
                 IF getActData(actIdx) = None THEN "None"
                 ELSE IF evaluateForRaises(actIdx) THEN "IndexError"
                 ELSE "ContextActivity")
    /\ saved' = None
    /\ UNCHANGED <<libVars, cfgVars, engineVars>>

EvaluateFor ==
    /\ \E actIdx \in (-1)..MaxLib, position \in 0..(MaxLen + 1) :
          evaluateForCall(actIdx, position)
    /\ UNCHANGED <<fileVars, calcVars>>

\* sort_key of setGapFocus
sort_key(ctx) ==
    IF ~okeyToTake(ctx) THEN <<-1, 0>>
    ELSE IF ctx.myScore = None THEN <<0, 0>>
    ELSE <<1, ctx.myScore[1]>>

\* a comparison under which equal keys change places
KeyLess_orEqual(k1, k2) == k1[1] < k2[1] \/ (k1[1] = k2[1] /\ k1[2] <= k2[2])

KeyLess(k1, k2) == k1[1] < k2[1] \/ (k1[1] = k2[1] /\ k1[2] < k2[2])

\* evaluations.sort(key=sort_key, reverse=True): stable, largest key first
RECURSIVE sortInsert(_, _, _)
sortInsert(sorted, ctx, i) ==
    IF i > Len(sorted) THEN Append(sorted, ctx)
    ELSE IF KeyLess(sort_key(sorted[i]), sort_key(ctx))
         THEN SubSeq(sorted, 1, i - 1) \o <<ctx>> \o SubSeq(sorted, i, Len(sorted))
         ELSE sortInsert(sorted, ctx, i + 1)

RECURSIVE sortReverse(_, _, _)
sortReverse(evaluations, i, sorted) ==
    IF i > Len(evaluations) THEN sorted
    ELSE sortReverse(evaluations, i + 1, sortInsert(sorted, evaluations[i], 1))

\* a marking that takes the first candidate with a score, takeable or not
RECURSIVE markBest_firstScored(_, _)
markBest_firstScored(evaluations, i) ==
    IF i > Len(evaluations) THEN evaluations
    ELSE IF evaluations[i].myScore # None
         THEN [evaluations EXCEPT ![i].isBest = TRUE]
         ELSE markBest_firstScored(evaluations, i + 1)

\* "Mark best valid activity": the first takeable one with a score
RECURSIVE markBest(_, _)
markBest(evaluations, i) ==
    IF i > Len(evaluations) THEN evaluations
    ELSE IF okeyToTake(evaluations[i]) /\ evaluations[i].myScore # None
         THEN [evaluations EXCEPT ![i].isBest = TRUE]
         ELSE markBest(evaluations, i + 1)

\* the list setGapFocus builds for gapIndex >= 0 when no evaluation raises
rankedEvaluations(gapIndex) ==
    LET evaluations == [n \in 1..getLength |-> evaluateFor(n - 1, gapIndex)]
    IN  markBest(sortReverse(evaluations, 1, << >>), 1)

\* a setGapFocus that keeps the cached list when the selection is cleared
setGapFocus_keepsCache(gapIndex) ==
    /\ gapFocus' = Some(gapIndex)
    /\ saved' = None
    /\ last' = Returned("setGapFocus", "None")
    /\ UNCHANGED <<libVars, cfgVars, derivedVars, listOfFixedInstancedAct, quantities>>
    /\ IF gapIndex < 0 \/ \E actIdx \in 0..(getLength - 1) : evaluateForRaises(actIdx)
       THEN UNCHANGED currentListForSelectedGap
       ELSE currentListForSelectedGap' = rankedEvaluations(gapIndex)

setGapFocus(gapIndex) ==
    /\ gapFocus' = Some(gapIndex)
    /\ saved' = None
    /\ UNCHANGED <<libVars, cfgVars, derivedVars, listOfFixedInstancedAct, quantities>>
    /\ IF gapIndex < 0
       THEN /\ currentListForSelectedGap' = << >>
            /\ last' = Returned("setGapFocus", "None")
       ELSE IF \E actIdx \in 0..(getLength - 1) : evaluateForRaises(actIdx)
       THEN /\ UNCHANGED currentListForSelectedGap
            /\ last' = Returned("setGapFocus", "IndexError")
       ELSE /\ currentListForSelectedGap' = rankedEvaluations(gapIndex)
            /\ last' = Returned("setGapFocus", "None")

SetGapFocus ==
    /\ \E gapIndex \in (-1)..MaxLen : setGapFocus(gapIndex)
    /\ UNCHANGED <<fileVars, calcVars>>

\* ------------------------------------------------------------------- insert
\* "if plane is None: plane = actData.defPlane", "if time is None: ..."
timeOrDefault_maxT(actData, time) == IF time = None THEN actData.maxT ELSE time[1]
planeOrDefault(actData, plane) == IF plane = None THEN actData.defPlane ELSE plane[1]
timeOrDefault(actData, time) == IF time = None THEN actData.defT ELSE time[1]

\* The body of insert, run for the call op (insert itself, or an auto-fill that
\* ends in self.insert); it does not touch the gap focus.
insertCall(op, actIdx, position, plane, time) ==
    LET found == getActData(actIdx)
        list == listOfFixedInstancedAct
    IN
    /\ UNCHANGED <<libVars, cfgVars>>
    /\ IF found = None
       THEN /\ last' = Returned(op, "False")
            /\ saved' = None
            /\ UNCHANGED <<listOfFixedInstancedAct, quantities, derivedVars>>
       ELSE
       LET actData == found[1]
           pl == planeOrDefault(actData, plane)
           tm == timeOrDefault(actData, time)
           \* the entry before the insertion point, 0 when there is none,
           \* -1 when the lookup raises IndexError
           prev == IF position = 0 THEN 0
                   ELSE IF position <= Len(list)
                        THEN (IF PyIndex(list, position - 1) = 0 THEN -1
                              ELSE PyIndex(list, position - 1))
                        ELSE Len(list)
           pos == IF position > Len(list) THEN Len(list) ELSE position
       IN
       IF prev = -1
       THEN /\ last' = Returned(op, "IndexError")
            /\ saved' = None
            /\ UNCHANGED <<listOfFixedInstancedAct, quantities, derivedVars>>
       ELSE
       LET currentState == IF prev = 0 THEN start ELSE list[prev].pValEnd
           startsAfter == IF prev = 0 THEN 0 ELSE endsAfter(list[prev])
           inst == InstantiatedActData(actData, tm, pl, startsAfter, currentState)
           newList == InsertAt(list, PyInsertPos(list, pos), inst)
       IN
       IF actIdx >= Len(quantities)
       THEN \* quantities[actIdx] += 1 raises after the list was changed
            /\ last' = Returned(op, "IndexError")
            /\ saved' = None
            /\ listOfFixedInstancedAct' = newList
            /\ UNCHANGED <<quantities, derivedVars>>
       ELSE /\ last' = Returned(op, "True")
            /\ saved' = Some([before |-> Snapshot, position |-> position])
            /\ quantities' = [quantities EXCEPT ![actIdx + 1] = @ + 1]
            /\ reEvaluateData(newList)

insert(actIdx, position, plane, time) ==
    /\ insertCall("insert", actIdx, position, plane, time)
    /\ UNCHANGED focusVars

\* The calls explored: every catalog slot at every position with the defaults,
\* slot 0 with plane 2 and a duration of 4 minutes (longer than its maxT), and
\* two ids no catalog has.
PositionInputs == (-1)..MaxLen
InsertInputs ==
    {<<a, p, None, None>> : a \in 0..(MaxLib - 1), p \in PositionInputs}
    \cup {<<0, p, Some(2), Some(4)>> : p \in 0..MaxLen}
    \cup {<<a, 0, None, None>> : a \in {-1, MaxLib}}

Insert ==
    /\ Len(listOfFixedInstancedAct) < MaxLen
    /\ \A i \in 1..Len(listOfFixedInstancedAct) :
          listOfFixedInstancedAct[i].startsAfter <= MaxClock
    /\ \E c \in InsertInputs : insert(c[1], c[2], c[3], c[4])
    /\ UNCHANGED <<fileVars, calcVars>>

\* ----------------------------------------------------------------- auto-add
\* the distance autoAdd computes for the gap at gapIdx (gapIdx <= length)
gapDistance(list, gapIdx) ==
    IF gapIdx = 0
    THEN (IF Len(list) = 0 THEN distance_onlyForward(start, goal)
          ELSE distance_onlyForward(start, list[1].actData.pcond))
    ELSE IF gapIdx = Len(list)
    THEN distance_onlyForward(list[Len(list)].pValEnd, goal)
    ELSE distance_onlyForward(list[gapIdx].pValEnd, list[gapIdx + 1].actData.pcond)

\* a comparison that lets a later gap of equal distance win
isWorse_orEqual(distance, worstGapDistance) == distance >= worstGapDistance

\* "if distance > worstGapDistance"
isWorse(distance, worstGapDistance) == distance > worstGapDistance

\* a choice that takes the last listed gap whatever its distance
worstGapLoop_lastListed(list, gaps, k, worstGapIdx, worstGapDistance) ==
    IF Len(gaps) = 0 THEN worstGapIdx ELSE gaps[Len(gaps)]

\* "for gapIdx in self.hardGapsList" from the k-th element on
RECURSIVE worstGapLoop(_, _, _, _, _)
worstGapLoop(list, gaps, k, worstGapIdx, worstGapDistance) ==
    IF k > Len(gaps) THEN worstGapIdx
    ELSE LET distance == gapDistance(list, gaps[k])
         IN  IF isWorse(distance, worstGapDistance)
             THEN worstGapLoop(list, gaps, k + 1, gaps[k], distance)
             ELSE worstGapLoop(list, gaps, k + 1, worstGapIdx, worstGapDistance)

\* the loop reads an entry the timeline does not have
worstGapRaises(list, gaps) == \E k \in 1..Len(gaps) : gaps[k] > Len(list)

\* "Find best valid activity": its place in the list, 0 when there is none
RECURSIVE bestActivity(_, _)
bestActivity(evaluations, i) ==
    IF i > Len(evaluations) THEN 0
    ELSE IF okeyToTake(evaluations[i]) /\ evaluations[i].myScore # None THEN i
    ELSE bestActivity(evaluations, i + 1)

autoAdd ==
    LET list == listOfFixedInstancedAct
    IN
    IF hardGapsCount = 0
    THEN /\ last' = Returned("autoAdd", "False")
         /\ saved' = None
         /\ UNCHANGED <<libVars, cfgVars, engineVars>>
    ELSE IF worstGapRaises(list, hardGapsList)
    THEN /\ last' = Returned("autoAdd", "IndexError")
         /\ saved' = None
         /\ UNCHANGED <<libVars, cfgVars, engineVars>>
    ELSE
    LET worstGapIdx == worstGapLoop(list, hardGapsList, 1, 0, 0)
    IN
    /\ gapFocus' = Some(worstGapIdx)
    /\ IF \E actIdx \in 0..(getLength - 1) : evaluateForRaises(actIdx)
       THEN \* setGapFocus raises after it has set gapFocus
            /\ last' = Returned("autoAdd", "IndexError")
            /\ saved' = None
            /\ UNCHANGED <<libVars, cfgVars, listOfFixedInstancedAct, quantities,
                           derivedVars, currentListForSelectedGap>>
       ELSE
       LET evaluations == rankedEvaluations(worstGapIdx)
           best == bestActivity(evaluations, 1)
       IN
       /\ currentListForSelectedGap' = evaluations
       /\ IF best = 0
          THEN /\ last' = Returned("autoAdd", "False")
               /\ saved' = None
               /\ UNCHANGED <<libVars, cfgVars, listOfFixedInstancedAct, quantities,
                              derivedVars>>
          ELSE insertCall("autoAdd", evaluations[best].myActData.idx, worstGapIdx,
                          None, None)

autoAddFromSelectedGap ==
    IF gapFocus = None \/ gapFocus[1] < 0
    THEN /\ last' = Returned("autoAddFromSelectedGap", "False")
         /\ saved' = None
         /\ UNCHANGED <<libVars, cfgVars, engineVars>>
    ELSE
    LET best == bestActivity(currentListForSelectedGap, 1)
    IN
    /\ UNCHANGED focusVars
    /\ IF best = 0
       THEN /\ last' = Returned("autoAddFromSelectedGap", "False")
            /\ saved' = None
            /\ UNCHANGED <<libVars, cfgVars, listOfFixedInstancedAct, quantities,
                           derivedVars>>
       ELSE insertCall("autoAddFromSelectedGap",
                       currentListForSelectedGap[best].myActData.idx, gapFocus[1],
                       None, None)

\* the timelines from which a further entry is explored
WithinBounds ==
    /\ Len(listOfFixedInstancedAct) < MaxLen
    /\ \A i \in 1..Len(listOfFixedInstancedAct) :
          listOfFixedInstancedAct[i].startsAfter <= MaxClock
    /\ \A t \in 1..Len(quantities) : quantities[t] < MaxLen

AutoAdd == WithinBounds /\ autoAdd /\ UNCHANGED <<fileVars, calcVars>>

AutoAddFromSelectedGap ==
    WithinBounds /\ autoAddFromSelectedGap /\ UNCHANGED <<fileVars, calcVars>>

\* ------------------------------------------------------------------- remove
\* a range check that forgets the lower end
invalidPosition_noLower(list, position) == position >= Len(list)

\* "if position < 0 or position >= len(self.listOfFixedInstancedAct)"
invalidPosition(list, position) == position < 0 \/ position >= Len(list)

remove(position) ==
    LET list == listOfFixedInstancedAct
    IN
    /\ saved' = None
    /\ UNCHANGED <<libVars, cfgVars>>
    /\ IF invalidPosition(list, position)
       THEN /\ last' = Returned("remove", "False")
            /\ UNCHANGED engineVars
       ELSE IF PyIndex(list, position) = 0
       THEN /\ last' = Returned("remove", "IndexError")
            /\ UNCHANGED engineVars
       ELSE
       LET inst == list[PyIndex(list, position)]
           actIdx == inst.actData.idx
           newList == RemoveAt(list, PyIndex(list, position) - 1)
       IN
       IF PyIndex(quantities, actIdx) = 0
       THEN \* quantities[actIdx] -= 1 raises after the entry was popped
            /\ last' = Returned("remove", "IndexError")
            /\ listOfFixedInstancedAct' = newList
            /\ UNCHANGED <<quantities, derivedVars, focusVars>>
       ELSE /\ last' = Returned("remove", "True")
            /\ quantities' = [quantities EXCEPT ![PyIndex(quantities, actIdx)] = @ - 1]
            /\ reEvaluateData(newList)
            /\ UNCHANGED focusVars

Remove ==
    /\ \E position \in PositionInputs : remove(position)
    /\ UNCHANGED <<fileVars, calcVars>>

\* ----------------------------------------------------------------- exchange
exchange(posA, posB) ==
    LET list == listOfFixedInstancedAct
    IN
    /\ saved' = None
    /\ UNCHANGED <<libVars, cfgVars>>
    /\ IF invalidPosition(list, posA)
       THEN /\ last' = Returned("exchange", "False")
            /\ UNCHANGED engineVars
       ELSE IF invalidPosition(list, posB)
       THEN /\ last' = Returned("exchange", "False")
            /\ UNCHANGED engineVars
       ELSE IF PyIndex(list, posA) = 0 \/ PyIndex(list, posB) = 0
       THEN /\ last' = Returned("exchange", "IndexError")
            /\ UNCHANGED engineVars
       ELSE /\ last' = Returned("exchange", "True")
            /\ reEvaluateData(
                  [list EXCEPT ![PyIndex(list, posA)] = list[PyIndex(list, posB)],
                               ![PyIndex(list, posB)] = list[PyIndex(list, posA)]])
            /\ UNCHANGED <<quantities, focusVars>>

Exchange ==
    /\ \E posA, posB \in PositionInputs : exchange(posA, posB)
    /\ UNCHANGED <<fileVars, calcVars>>

\* -------------------------------------------------------------------- reset
\* a reset that leaves the gap focus and its candidates as they were
reset_keepsFocus ==
    LET g == evaluate_gaps(<< >>, start, goal)
    IN
    /\ listOfFixedInstancedAct' = << >>
    /\ quantities' = [n \in 1..getLength |-> 0]
    /\ totTime' = 0
    /\ reached' = start
    /\ hardGapsList' = g.gaps
    /\ hardGapsCount' = Len(g.gaps)
    /\ remainingGapsDistance' = g.totalDistance
    /\ last' = Returned("reset", "None")
    /\ saved' = None
    /\ UNCHANGED <<libVars, cfgVars, focusVars>>

reset ==
    LET g == evaluate_gaps(<< >>, start, goal)
    IN
    /\ listOfFixedInstancedAct' = << >>
    /\ quantities' = [n \in 1..getLength |-> 0]
    /\ totTime' = 0
    /\ reached' = start
    /\ gapFocus' = None
    /\ currentListForSelectedGap' = << >>
    /\ hardGapsList' = g.gaps
    /\ hardGapsCount' = Len(g.gaps)
    /\ remainingGapsDistance' = g.totalDistance
    /\ last' = Returned("reset", "None")
    /\ saved' = None
    /\ UNCHANGED <<libVars, cfgVars>>

Reset == reset /\ UNCHANGED <<fileVars, calcVars>>

\* -------------------------------------------------------- Library.addActivity
addActivity(activityData) ==
    LET newIdx == Len(activities)
    IN
    /\ activities' = Append(activities, [activityData EXCEPT !.idx = newIdx])
    /\ last' = Returned("addActivity", ToString(newIdx))
    /\ saved' = None
    /\ UNCHANGED <<cfgVars, engineVars>>

AddActivity ==
    /\ Len(activities) < MaxLib
    /\ addActivity(CatalogRow(Len(activities)))
    /\ UNCHANGED <<fileVars, calcVars>>

\* ------------------------------------------------------- get_gap_pvalue_info
GapInfo(position, distance) ==
    [position |-> position, distance |-> distance, isHard |-> isHard(distance)]

\* The entries for the gaps between activities and for the gap to the goal
betweenAndAfter(list) ==
    [k \in 1..Len(list) |->
        IF k < Len(list)
        THEN GapInfo(k, distance_onlyForward(list[k].pValEnd, list[k + 1].actData.pcond))
        ELSE GapInfo(k, distance_onlyForward(list[k].pValEnd, goal))]

\* One entry per position 0..len, in position order
get_gap_pvalue_info ==
    IF Len(listOfFixedInstancedAct) = 0
    THEN <<GapInfo(0, distance_onlyForward(start, goal))>>
    ELSE <<GapInfo(0, distance_onlyForward(start, listOfFixedInstancedAct[1].actData.pcond))>>
         \o betweenAndAfter(listOfFixedInstancedAct)

\* reEvaluateData() called on the engine as it is
ReEvaluateData ==
    /\ reEvaluateData(listOfFixedInstancedAct)
    /\ last' = Returned("reEvaluateData", "None")
    /\ saved' = None
    /\ UNCHANGED <<libVars, cfgVars, quantities, focusVars, fileVars, calcVars>>

\* ------------------------------------------------------------ file operations
\* pickle.dump(self): every field of the engine, the entries with the
\* activity definitions they embed
saveAsFile ==
    /\ pickleFile' = Some([tBudget |-> tBudget, start |-> start, goal |-> goal,
                           reached |-> reached, totTime |-> totTime,
                           listOfFixedInstancedAct |-> listOfFixedInstancedAct,
                           quantities |-> quantities,
                           hardGapsCount |-> hardGapsCount,
                           hardGapsList |-> hardGapsList,
                           remainingGapsDistance |-> remainingGapsDistance,
                           gapFocus |-> gapFocus,
                           currentListForSelectedGap |-> currentListForSelectedGap])
    /\ last' = Returned("saveAsFile", "None")
    /\ saved' = None
    /\ UNCHANGED <<libVars, cfgVars, engineVars>>

SaveAsFile == saveAsFile /\ UNCHANGED calcVars

\* loadFromFile(filename, library): the unpickled engine with obj.lib = library;
\* gapFocus and currentListForSelectedGap are attributes of every pickled
\* engine, so the hasattr defaults never apply
loadFromFile(library) ==
    IF pickleFile = None
    THEN /\ last' = Returned("loadFromFile", "FileNotFoundError")
         /\ UNCHANGED <<libVars, cfgVars, engineVars, fileVars, saved>>
    ELSE LET obj == pickleFile[1]
         IN  /\ activities' = library
             /\ tBudget' = obj.tBudget
             /\ start' = obj.start
             /\ goal' = obj.goal
             /\ reached' = obj.reached
             /\ totTime' = obj.totTime
             /\ listOfFixedInstancedAct' = obj.listOfFixedInstancedAct
             /\ quantities' = obj.quantities
             /\ hardGapsCount' = obj.hardGapsCount
             /\ hardGapsList' = obj.hardGapsList
             /\ remainingGapsDistance' = obj.remainingGapsDistance
             /\ gapFocus' = obj.gapFocus
             /\ currentListForSelectedGap' = obj.currentListForSelectedGap
             /\ last' = Returned("loadFromFile", "None")
             /\ saved' = None
             /\ UNCHANGED fileVars

\* The library file with the maximal effect of its first activity edited
EditedLibrary ==
    LET lib == Library([n \in 1..InitLib |-> n - 1])
    IN  [lib EXCEPT ![1].maxEffect = <<10, 30>>]

\* The libraries an engine is loaded against: the one in use, and the one read
\* from the edited file
LoadFromFile ==
    /\ \E library \in {activities, EditedLibrary} : loadFromFile(library)
    /\ UNCHANGED calcVars

Next ==
    \/ Insert
    \/ Remove
    \/ Exchange
    \/ Reset
    \/ AddActivity

Spec == Init /\ [][Next]_vars

\* The engine with the gap focus of the user interface in use; the timeline is
\* built by appending with the defaults.
InsertAtEnd ==
    /\ Len(listOfFixedInstancedAct) < MaxLen
    /\ \A i \in 1..Len(listOfFixedInstancedAct) :
          listOfFixedInstancedAct[i].startsAfter <= MaxClock
    /\ \A t \in 1..Len(quantities) : quantities[t] < MaxLen
    /\ \E actIdx \in 0..(MaxLib - 1) :
          insert(actIdx, Len(listOfFixedInstancedAct), None, None)
    /\ UNCHANGED <<fileVars, calcVars>>

NextFocus ==
    \/ InsertAtEnd
    \/ SetGapFocus
    \/ Reset
    \/ AddActivity

SpecFocus == Init /\ [][NextFocus]_vars

\* The engine over a library loaded from any of the files.
NextCatalog ==
    \/ InsertAtEnd
    \/ Remove
    \/ Reset
    \/ AddActivity

SpecCatalog == InitFromFile /\ [][NextCatalog]_vars

\* The engine with the auto-fill of the worst gap, over a library loaded from
\* any of the files.
NextAuto ==
    \/ InsertAtEnd
    \/ AutoAdd
    \/ Reset
    \/ AddActivity

SpecAuto == InitFromFile /\ [][NextAuto]_vars

\* The engine with the gap focus and the auto-fill of the focused gap, over a
\* library loaded from any of the files.
NextSelected ==
    \/ InsertAtEnd
    \/ SetGapFocus
    \/ AutoAddFromSelectedGap
    \/ Reset
    \/ AddActivity

SpecSelected == InitFromFile /\ [][NextSelected]_vars

\* The engine with the recalculation called between the mutations.
NextRecalculate ==
    \/ InsertAtEnd
    \/ Remove
    \/ Exchange
    \/ Reset
    \/ AddActivity
    \/ ReEvaluateData

SpecRecalculate == Init /\ [][NextRecalculate]_vars

\* ------------------------------------------- pVal and InterPVal on their own
MaxCoord == 3       \* largest of the small coordinates explored, in hundredths
MaxDuration == 3    \* longest duration bound of an effect curve explored

Coordinates == (0..MaxCoord) \cup {30, 40}
PValOperands ==
    {[kind |-> "pVals", a |-> <<x>>, b |-> <<y>>] : x, y \in Coordinates}
    \cup {[kind |-> "pVals", a |-> <<p[1], p[2]>>, b |-> <<q[1], q[2]>>] :
            p, q \in Coordinates \X Coordinates}

InterPVal(minEffect, maxEffect, minT, maxT) ==
    [minEffect |-> minEffect, maxEffect |-> maxEffect, minT |-> minT, maxT |-> maxT]

Effects == {<<0, 0>>, <<10, 0>>, <<30, 10>>, <<0, 40>>, <<4, 4>>, <<7, 2>>}
Durations == 0..(MaxDuration + 1)
InterPValOperands ==
    {[kind |-> "curve", curve |-> InterPVal(e[1], e[2], t[1], t[2]), time |-> d] :
        e \in Effects \X Effects,
        t \in {u \in (1..MaxDuration) \X (1..MaxDuration) : u[1] <= u[2]},
        d \in Durations}

InitValues ==
    /\ activities = Library([n \in 1..InitLib |-> n - 1])
    /\ EngineInit(TimeBudgets, Goals)
    /\ args \in {Some(o) : o \in PValOperands \cup InterPValOperands}
    /\ value = None

Applied(op, result) ==
    /\ value' = Some(result)
    /\ last' = Returned(op, "value")
    /\ UNCHANGED <<libVars, cfgVars, engineVars, fileVars, args, saved>>

NeedToReach ==
    /\ args[1].kind = "pVals"
    /\ Applied("needToReach", needToReach(args[1].a, args[1].b))

Distance_onlyForward ==
    /\ args[1].kind = "pVals"
    /\ Applied("distance_onlyForward", distance_onlyForward(args[1].a, args[1].b))

Get ==
    /\ args[1].kind = "curve"
    /\ Applied("get", get(args[1].curve, args[1].time))

NextValues ==
    \/ NeedToReach
    \/ Distance_onlyForward
    \/ Get

SpecValues == InitValues /\ [][NextValues]_vars

\* The engine with the gap focus over a library whose last activity has a fixed
\* time of 0 minutes.
ZeroTimeActivity(idx) ==
    ActivityData(idx, <<0, 0>>, <<10, 10>>, <<10, 10>>, 0, 0, 0, 1, 0)

InitZeroTime ==
    /\ activities = Append(Library([n \in 1..InitLib |-> n - 1]), ZeroTimeActivity(InitLib))
    /\ EngineInit(TightBudgets, FarGoals)
    /\ args = None
    /\ value = None

NextScore ==
    \/ InsertAtEnd
    \/ SetGapFocus
    \/ Reset

SpecScore == InitZeroTime /\ [][NextScore]_vars

\* The engine with the gap focus and the evaluation of single candidates.
NextEvaluate ==
    \/ InsertAtEnd
    \/ SetGapFocus
    \/ EvaluateFor
    \/ Reset
    \/ AddActivity

SpecEvaluate == Init /\ [][NextEvaluate]_vars

\* The engine under every operation that changes the timeline, over a library
\* loaded from any of the files and not changed afterwards.
NextUsage ==
    \/ InsertAtEnd
    \/ Remove
    \/ Exchange
    \/ Reset
    \/ SetGapFocus
    \/ AutoAdd
    \/ AutoAddFromSelectedGap

InitUsage ==
    /\ activities \in {Library(rows) : rows \in CsvFiles}
    /\ EngineInit(TimeBudgets, Goals)
    /\ args = None
    /\ value = None

SpecUsage == InitUsage /\ [][NextUsage]_vars

\* The engine filled by autoAdd alone, with the gap focus moved in between,
\* over a library loaded from any of the files.
NextFill ==
    \/ AutoAdd
    \/ SetGapFocus

\* The files of CsvFiles and one whose empty first line is followed by a
\* one-minute activity and a longer one.
FillFiles == CsvFiles \cup {<<BlankRow, 2, 0>>}

InitFill ==
    /\ activities \in {Library(rows) : rows \in FillFiles}
    /\ EngineInit(TightBudgets, FarGoals)
    /\ args = None
    /\ value = None

SpecFill == InitFill /\ [][NextFill]_vars

\* The engine saved to a file and loaded from it.
NextSnapshot ==
    \/ InsertAtEnd
    \/ SaveAsFile
    \/ LoadFromFile

SpecSnapshot == Init /\ [][NextSnapshot]_vars

\* ======================================================================
\* Properties
\* ======================================================================
timeline == listOfFixedInstancedAct

\* the last call was a mutation that succeeded
AfterMutation ==
    \/ last.op \in {"insert", "remove", "exchange"} /\ last.ret = "True"
    \/ last.op = "reset"

RECURSIVE SumTimes(_, _)
SumTimes(l, n) == IF n = 0 THEN 0 ELSE l[n].time + SumTimes(l, n - 1)

\* what a caller chose for each entry: template, duration, grouping mode
Core(l) ==
    [i \in 1..Len(l) |-> [actData |-> l[i].actData, time |-> l[i].time,
                          plane |-> l[i].plane]]

\* the state before insertion position p and the requirement after it
StateBeforePosition(l, p) == IF p = 0 THEN start ELSE l[p].pValEnd
RequirementAfterPosition(l, p) == IF p = Len(l) THEN goal ELSE l[p + 1].actData.pcond
ForwardDistanceAt(l, p) ==
    distance_onlyForward(StateBeforePosition(l, p), RequirementAfterPosition(l, p))

ValidId(actIdx) == 0 <= actIdx /\ actIdx < Len(activities)
OutOfRange(position) == position < 0 \/ position >= Len(timeline)

\* C1: after every successful insert, remove, swap or reset each entry starts
\* at the component-wise maximum of the state before it and its prerequisite,
\* ends at that state plus its effect at the chosen duration, and starts after
\* the sum of the durations before it; reached is the last end state (start
\* when the timeline is empty) and totTime the sum of all durations.
C1_DerivedStateIsOneWalk ==
    AfterMutation =>
        /\ \A i \in 1..Len(timeline) :
              LET e == timeline[i]
                  before == StateBeforePosition(timeline, i - 1)
              IN  /\ e.pValStart = [k \in 1..Len(before) |->
                                       Max2(before[k], e.actData.pcond[k])]
                  /\ e.pValEnd = [k \in 1..Len(before) |->
                                     e.pValStart[k] + get(e.actData, e.time)[k]]
                  /\ e.startsAfter = SumTimes(timeline, i - 1)
        /\ reached = StateBeforePosition(timeline, Len(timeline))
        /\ totTime = SumTimes(timeline, Len(timeline))

C1_Witness ==
    /\ AfterMutation
    /\ Len(timeline) >= 2
    /\ timeline[2].pValStart # timeline[1].pValEnd

\* C2: after every successful mutation hardGapsList is strictly ascending and
\* holds exactly the positions 0..length whose forward distance exceeds 0.05,
\* and hardGapsCount is its length.
C2_GapPositionsExact ==
    AfterMutation =>
        /\ \A k \in 1..(Len(hardGapsList) - 1) : hardGapsList[k] < hardGapsList[k + 1]
        /\ {hardGapsList[k] : k \in 1..Len(hardGapsList)}
             = {p \in 0..Len(timeline) : ForwardDistanceAt(timeline, p) > THRESHOLD}
        /\ hardGapsCount = Len(hardGapsList)

C2_Witness ==
    /\ AfterMutation
    /\ Len(hardGapsList) >= 2
    /\ \E p \in 0..Len(timeline) :
          /\ ForwardDistanceAt(timeline, p) <= THRESHOLD
          /\ \A k \in 1..Len(hardGapsList) : hardGapsList[k] # p

\* C3: an insert whose template id is outside the catalog's index range returns
\* False and changes no field of the engine.
C3_InsertUnknownTemplateFails ==
    [][\A c \in InsertInputs :
          (~ValidId(c[1]) /\ insert(c[1], c[2], c[3], c[4]))
              => (last'.ret = "False" /\ UNCHANGED engineVars)]_vars

C3_Witness ==
    /\ last = Returned("insert", "False")
    /\ Len(timeline) >= 1

\* C4: a remove at a position outside [0, length) and a swap with either
\* position outside [0, length) return False and change no field of the engine;
\* right after a successful remove, a swap naming the position that no longer
\* exists fails and leaves the timeline as it is.
C4_OutOfRangePositionFails ==
    [][/\ \A p \in PositionInputs :
             (OutOfRange(p) /\ remove(p))
                 => (last'.ret = "False" /\ UNCHANGED engineVars)
       /\ \A a, b \in PositionInputs :
             ((OutOfRange(a) \/ OutOfRange(b)) /\ exchange(a, b))
                 => (last'.ret = "False" /\ UNCHANGED engineVars)
       /\ (last = Returned("remove", "True"))
             => \A a, b \in PositionInputs :
                   ((a = Len(timeline) \/ b = Len(timeline)) /\ exchange(a, b))
                       => (last'.ret = "False" /\ timeline' = timeline)]_vars

C4_Witness ==
    /\ last = Returned("exchange", "False")
    /\ Len(timeline) >= 1

Clamp(position, length) == Max2(0, Min2(position, length))

\* C5: for every integer position, negative ones and ones past the end
\* included, an insert with a valid template id succeeds and places the new
\* entry at index max(0, min(position, length)).
C5_InsertClampsEveryPosition ==
    [][\A c \in InsertInputs :
          (ValidId(c[1]) /\ insert(c[1], c[2], c[3], c[4]))
              => /\ last'.ret = "True"
                 /\ Len(timeline') = Len(timeline) + 1
                 /\ LET k == Clamp(c[2], Len(timeline))
                    IN  /\ timeline'[k + 1].actData = activities[c[1] + 1]
                        /\ Core(RemoveAt(timeline', k)) = Core(timeline)]_vars

\* C6: a successful insert with plane and time omitted grows the timeline by
\* exactly one entry, which references the template and carries its default
\* duration and default plane; the template's usage count grows by one, the
\* other counts stay, and the entries that were there keep their order,
\* durations and planes.
C6_InsertWithDefaultsFrame ==
    [][\A c \in InsertInputs :
          (c[3] = None /\ c[4] = None /\ last' = Returned("insert", "True")
             /\ insert(c[1], c[2], c[3], c[4]))
              => /\ Len(timeline') = Len(timeline) + 1
                 /\ \E k \in 1..Len(timeline') :
                       /\ timeline'[k].actData = activities[c[1] + 1]
                       /\ timeline'[k].time = activities[c[1] + 1].defT
                       /\ timeline'[k].plane = activities[c[1] + 1].defPlane
                       /\ Core(RemoveAt(timeline', k - 1)) = Core(timeline)
                 /\ Len(quantities') = Len(quantities)
                 /\ \A t \in 1..Len(quantities) :
                       quantities'[t] = quantities[t] + (IF t = c[1] + 1 THEN 1 ELSE 0)]_vars

C6_Witness ==
    /\ last = Returned("insert", "True")
    /\ saved # None
    /\ Len(saved[1].before.listOfFixedInstancedAct) >= 1
    /\ \E i, j \in 1..Len(timeline) :
          /\ i # j
          /\ timeline[i].time = timeline[i].actData.defT
          /\ timeline[i].plane = timeline[i].actData.defPlane
          /\ timeline[j].time # timeline[j].actData.defT

\* C7: a successful swap exchanges exactly the two entries, each keeping its
\* template, duration and plane, and leaves quantities and totTime unchanged.
C7_SwapFrame ==
    [][\A a, b \in PositionInputs :
          (exchange(a, b) /\ last'.ret = "True")
              => /\ Core(timeline') = [Core(timeline) EXCEPT
                                          ![a + 1] = Core(timeline)[b + 1],
                                          ![b + 1] = Core(timeline)[a + 1]]
                 /\ quantities' = quantities
                 /\ totTime' = totTime]_vars

\* C8: after reset the timeline is empty, every usage count is zero with one
\* count per catalog slot, reached is start, totTime is 0, the gap fields are
\* those of an empty timeline, no gap is focused and the candidate list is
\* empty; tBudget, start and goal are unchanged.
C8_ResetRestoresEmptyEngine ==
    [][(last'.op = "reset")
          => /\ timeline' = << >>
             /\ Len(quantities') = Len(activities')
             /\ \A t \in 1..Len(quantities') : quantities'[t] = 0
             /\ reached' = start
             /\ totTime' = 0
             /\ hardGapsList' = (IF distance_onlyForward(start, goal) > THRESHOLD
                                 THEN <<0>> ELSE << >>)
             /\ hardGapsCount' = Len(hardGapsList')
             /\ remainingGapsDistance' = (IF distance_onlyForward(start, goal) > THRESHOLD
                                          THEN distance_onlyForward(start, goal) ELSE 0)
             /\ gapFocus' = None
             /\ currentListForSelectedGap' = << >>
             /\ UNCHANGED <<tBudget, start, goal>>]_vars

C8_Witness ==
    /\ last.op = "reset"
    /\ Len(quantities) > InitLib
    /\ hardGapsList = << >>

\* C9: a successful insert at a position in [0, length] immediately followed
\* by a remove at that position restores reached, totTime, hardGapsList,
\* remainingGapsDistance, quantities and the timeline.
C9_InsertRemoveRoundTrip ==
    [][(/\ last = Returned("insert", "True")
        /\ saved # None
        /\ saved[1].position \in 0..Len(saved[1].before.listOfFixedInstancedAct)
        /\ remove(saved[1].position)
        /\ last'.ret = "True")
          => Snapshot' = saved[1].before]_vars

\* C10: quantities has one entry per catalog slot in every reachable state,
\* also after the catalog has grown while the engine exists.
C10_QuantitiesCoverCatalog == Len(quantities) = Len(activities)

\* C11: every template's idx is its index in the catalog, after the load (also
\* one that skipped empty or unparsable rows) and after every append; append
\* returns the previous catalog length and leaves the templates that were
\* there, their ids and their indices as they were.
C11_CatalogIdsAreIndices ==
    /\ [](\A i \in 1..Len(activities) : activities[i].idx = i - 1)
    /\ [][(last'.op = "addActivity" /\ activities' # activities)
            => /\ last'.ret = ToString(Len(activities))
               /\ Len(activities') = Len(activities) + 1
               /\ SubSeq(activities', 1, Len(activities)) = activities]_vars

\* the positions a template is evaluated at: 0..length and one past the end
EvalPositions == 0..(Len(timeline) + 1)

\* template t has a usage count and it has reached the template's limit
Exhausted(t) ==
    /\ ~evaluateForRaises(t)
    /\ quantities[t + 1] >= activities[t + 1].maxRepetition

\* C12: for every template whose usage count has reached its maxRepetition and
\* every position, evaluateFor yields a candidate that is flagged exhausted and
\* is not takeable, whether it makes progress there (and has a score) or not.
C12_ExhaustedNeverTakeable ==
    \A t \in 0..(getLength - 1) : \A p \in EvalPositions :
        Exhausted(t) => /\ evaluateFor(t, p).exhausted
                        /\ ~okeyToTake(evaluateFor(t, p))

C12_Witness ==
    /\ last = Returned("setGapFocus", "None")
    /\ gapFocus # None
    /\ \E k \in 1..Len(currentListForSelectedGap) :
          /\ currentListForSelectedGap[k].exhausted
          /\ ~currentListForSelectedGap[k].tooLong
          /\ currentListForSelectedGap[k].myScore # None
    /\ \E t \in 0..(getLength - 1) : \E p \in EvalPositions :
          Exhausted(t) /\ evaluateFor(t, p).noProgress

\* the positions listed in hardGapsList
GapPositions == {hardGapsList[k] : k \in 1..Len(hardGapsList)}

\* the listed position with the largest forward distance, the lowest on a tie
WorstGap ==
    CHOOSE p \in GapPositions :
        \A q \in GapPositions :
            \/ ForwardDistanceAt(timeline, q) < ForwardDistanceAt(timeline, p)
            \/ (ForwardDistanceAt(timeline, q) = ForwardDistanceAt(timeline, p) /\ p <= q)

\* C13: when hardGapsList is not empty, autoAdd targets the listed position
\* with the largest forward distance, the lowest one among equal largest
\* distances, and a successful call inserts its entry at that position.
C13_AutoAddTargetsWorstGap ==
    [][(last'.op = "autoAdd" /\ last'.ret \in {"True", "False"}
        /\ hardGapsList # << >> /\ autoAdd)
          => /\ gapFocus' = Some(WorstGap)
             /\ (last'.ret = "True")
                   => /\ Len(timeline') = Len(timeline) + 1
                      /\ Core(RemoveAt(timeline', WorstGap)) = Core(timeline)]_vars

\* an auto-add has just filled the lower of two gaps of equal largest distance
C13_Witness ==
    /\ last = Returned("autoAdd", "True")
    /\ saved # None
    /\ LET before == saved[1].before
       IN  \E k \in 2..Len(before.hardGapsList) :
              /\ saved[1].position = before.hardGapsList[1]
              /\ ForwardDistanceAt(before.listOfFixedInstancedAct, before.hardGapsList[k])
                   = ForwardDistanceAt(before.listOfFixedInstancedAct, saved[1].position)

\* template t (a catalog index) can be evaluated and is takeable at position p
Takeable(t, p) == ~evaluateForRaises(t) /\ okeyToTake(evaluateFor(t, p))

\* the takeable template with the highest score at p, the lowest index on a tie
BestTemplate(p) ==
    CHOOSE t \in 0..(getLength - 1) :
        /\ Takeable(t, p)
        /\ \A u \in 0..(getLength - 1) :
              Takeable(u, p) =>
                \/ evaluateFor(u, p).myScore[1] < evaluateFor(t, p).myScore[1]
                \/ (evaluateFor(u, p).myScore[1] = evaluateFor(t, p).myScore[1] /\ t <= u)

\* C14: a successful autoAdd inserts at the worst gap, with the default
\* duration and plane, the template that is takeable there in the state before
\* the call and has the highest score of all takeable templates (the lowest
\* catalog index on equal scores); autoAdd succeeds whenever some template is
\* takeable at the worst gap.
C14_AutoAddInsertsBestTakeable ==
    [][(last'.op = "autoAdd" /\ hardGapsList # << >> /\ autoAdd)
          => /\ (last'.ret = "True")
                   => /\ Len(timeline') = Len(timeline) + 1
                      /\ \E t \in 0..(getLength - 1) : Takeable(t, WorstGap)
                      /\ LET new == timeline'[WorstGap + 1]
                             best == activities[BestTemplate(WorstGap) + 1]
                         IN  /\ new.actData = best
                             /\ new.time = best.defT
                             /\ new.plane = best.defPlane
             /\ (\E t \in 0..(getLength - 1) : Takeable(t, WorstGap))
                   => last'.ret = "True"]_vars

\* the call just made was an autoAdd that returned False
AutoAddFailed == last'.op = "autoAdd" /\ last'.ret = "False" /\ autoAdd

\* C15 as stated: whenever autoAdd returns False, the timeline, the usage
\* counts, reached, totTime, the gap state, the gap focus and the cached
\* candidates all keep their values.
C15_AutoAddFailureChangesNothing ==
    [][AutoAddFailed => UNCHANGED engineVars]_vars

\* C15 amended: whenever autoAdd returns False, the timeline, the usage counts,
\* reached, totTime and the gap state keep their values; the gap focus and the
\* cached candidates keep theirs when no gap is listed, and otherwise the focus
\* is the worst gap and the cache its ranked candidates.
C15_AutoAddFailureKeepsTimeline ==
    [][AutoAddFailed
          => /\ UNCHANGED <<listOfFixedInstancedAct, quantities, derivedVars>>
             /\ IF hardGapsList = << >>
                THEN UNCHANGED focusVars
                ELSE /\ gapFocus' = Some(WorstGap)
                     /\ currentListForSelectedGap' = rankedEvaluations(WorstGap)]_vars

\* an autoAdd has just failed on a listed gap for which every candidate is
\* flagged, with an entry in the timeline
C15_Witness ==
    /\ last = Returned("autoAdd", "False")
    /\ Len(timeline) >= 1
    /\ hardGapsList # << >>
    /\ gapFocus # None
    /\ currentListForSelectedGap # << >>
    /\ \A k \in 1..Len(currentListForSelectedGap) :
          ~okeyToTake(currentListForSelectedGap[k])

\* the cached list holds a candidate that is takeable and has a score
CachedBest == bestActivity(currentListForSelectedGap, 1)

\* C16: autoAddFromSelectedGap returns False and leaves the timeline and the
\* usage counts alone when no gap is focused (gapFocus None or negative) or the
\* cached list holds no takeable candidate; otherwise it returns True and has
\* inserted the first takeable candidate of the cached list at the focused
\* position (the end of the timeline when the focus lies past it).
C16_AutoAddFromSelectedGap ==
    [][(last'.op = "autoAddFromSelectedGap" /\ autoAddFromSelectedGap)
          => IF gapFocus = None \/ gapFocus[1] < 0 \/ CachedBest = 0
             THEN /\ last'.ret = "False"
                  /\ UNCHANGED <<listOfFixedInstancedAct, quantities>>
             ELSE /\ last'.ret = "True"
                  /\ Len(timeline') = Len(timeline) + 1
                  /\ LET k == Clamp(gapFocus[1], Len(timeline))
                         new == timeline'[k + 1]
                         first == currentListForSelectedGap[CachedBest].myActData
                     IN  /\ new.actData = first
                         /\ new.time = first.defT
                         /\ new.plane = first.defPlane
                         /\ Core(RemoveAt(timeline', k)) = Core(timeline)]_vars

\* the catalog index (1-based) of the template a candidate is about
CatalogPlace(ctx) == CHOOSE n \in 1..Len(activities') : activities'[n] = ctx.myActData

\* setGapFocus has just returned for a position >= 0
FocusedNow ==
    /\ last'.op = "setGapFocus" /\ last'.ret = "None"
    /\ gapFocus'[1] >= 0

\* the cache holds exactly one candidate per catalog template
OnePerTemplate(cache) ==
    /\ Len(cache) = Len(activities')
    /\ \A n \in 1..Len(activities') :
          \E k \in 1..Len(cache) : cache[k].myActData = activities'[n]

\* the three tiers read in the order they are listed: takeable with a score,
\* then every candidate without a score, then the other non-takeable ones
TierAsListed(ctx) ==
    IF okeyToTake(ctx) /\ ctx.myScore # None THEN 1
    ELSE IF ctx.myScore = None THEN 2
    ELSE 3

\* the tiers of sort_key: takeable with a score, takeable without a score,
\* non-takeable (with or without a score)
TierOfKey(ctx) ==
    IF ~okeyToTake(ctx) THEN 3
    ELSE IF ctx.myScore = None THEN 2
    ELSE 1

\* cache is ordered by Tier, by descending score inside tier 1, and by catalog
\* index among candidates of equal rank
OrderedBy(Tier(_), cache) ==
    \A i, j \in 1..Len(cache) :
        i < j =>
          /\ Tier(cache[i]) <= Tier(cache[j])
          /\ (Tier(cache[i]) = 1 /\ Tier(cache[j]) = 1)
                => cache[i].myScore[1] >= cache[j].myScore[1]
          /\ (/\ Tier(cache[i]) = Tier(cache[j])
              /\ (Tier(cache[i]) = 1 => cache[i].myScore = cache[j].myScore))
                => CatalogPlace(cache[i]) < CatalogPlace(cache[j])

\* C17 as stated: after setGapFocus(position) with position >= 0 the cache
\* holds one candidate per catalog template, ordered as: takeable candidates
\* with a score by descending score, then the candidates without a score, then
\* the non-takeable candidates; candidates of equal rank in catalog order.
C17_RankingAsListed ==
    [][FocusedNow
          => /\ OnePerTemplate(currentListForSelectedGap')
             /\ OrderedBy(TierAsListed, currentListForSelectedGap')]_vars

\* C17 amended: after setGapFocus(position) with position >= 0 the cache holds
\* one candidate per catalog template, ordered as: takeable candidates (they
\* always have a score) by descending score, then all non-takeable candidates,
\* those without a score included; candidates of equal rank in catalog order.
C17_RankingBySortKey ==
    [][FocusedNow
          => /\ OnePerTemplate(currentListForSelectedGap')
             /\ OrderedBy(TierOfKey, currentListForSelectedGap')
             /\ \A k \in 1..Len(currentListForSelectedGap') :
                   okeyToTake(currentListForSelectedGap'[k])
                      => currentListForSelectedGap'[k].myScore # None]_vars

\* a focused cache in which a flagged candidate with a score stands before a
\* candidate without a score, behind a takeable one the sort moved to the front
C17_Witness ==
    /\ last = Returned("setGapFocus", "None")
    /\ gapFocus # None
    /\ Len(currentListForSelectedGap) >= 3
    /\ okeyToTake(currentListForSelectedGap[1])
    /\ currentListForSelectedGap[1].myActData # activities[1]
    /\ \E i, j \in 2..Len(currentListForSelectedGap) :
          /\ i < j
          /\ currentListForSelectedGap[i].myScore # None
          /\ currentListForSelectedGap[j].myScore = None

\* "No gap selected": gapFocus is None or negative
NoFocus(focus) == focus = None \/ focus[1] < 0

\* C18: setGapFocus(position) with position < 0 leaves no focused gap and an
\* empty candidate cache and does not change the timeline, the usage counts or
\* the gap state; an autoAddFromSelectedGap called next returns False and
\* changes nothing.
C18_NegativeFocusClears ==
    [][/\ \A gapIndex \in (-1)..MaxLen :
             (gapIndex < 0 /\ last'.op = "setGapFocus" /\ setGapFocus(gapIndex))
                => /\ NoFocus(gapFocus')
                   /\ currentListForSelectedGap' = << >>
                   /\ UNCHANGED <<listOfFixedInstancedAct, quantities, derivedVars>>
       /\ (/\ last.op = "setGapFocus" /\ gapFocus # None /\ gapFocus[1] < 0
           /\ last'.op = "autoAddFromSelectedGap")
             => (last'.ret = "False" /\ UNCHANGED engineVars)]_vars

\* an auto-fill of the focused gap has just failed on a cleared focus although
\* the timeline has a hard gap
C18_Witness ==
    /\ last = Returned("autoAddFromSelectedGap", "False")
    /\ gapFocus # None /\ gapFocus[1] < 0
    /\ currentListForSelectedGap = << >>
    /\ Len(timeline) >= 1
    /\ hardGapsList # << >>

\* The timeline entries bound by id to the activities of the library in use
BoundToLibrary(list) ==
    [i \in 1..Len(list) |->
        [list[i] EXCEPT !.actData = activities[list[i].actData.idx + 1]]]

\* C19: an engine just loaded from a file has the derived state (every entry's
\* pValStart and pValEnd, reached, totTime, hardGapsList,
\* remainingGapsDistance) that reEvaluateData produces from the saved activity
\* ids, times, start and goal over the definitions of the library it is bound
\* to, also when a definition changed after the save.
C19_LoadedStateIsRecalculated ==
    last = Returned("loadFromFile", "None") =>
        LET w == reEvaluateLoop(BoundToLibrary(timeline), 1, start, 0)
            g == evaluate_gaps(w.list, start, goal)
        IN  /\ \A i \in 1..Len(timeline) :
                  /\ timeline[i].pValStart = w.list[i].pValStart
                  /\ timeline[i].pValEnd = w.list[i].pValEnd
            /\ reached = w.reached
            /\ totTime = w.totTime
            /\ hardGapsList = g.gaps
            /\ remainingGapsDistance = g.totalDistance

\* The engine as constructed or as reset leaves it
FreshOrReset ==
    /\ Len(timeline) = 0
    /\ last \in {NoCall, Returned("reset", "None")}

\* C20: with an empty timeline, freshly constructed or just reset, hardGapsList
\* is [0] when the forward distance from start to goal is above THRESHOLD and
\* empty otherwise, and the position-0 entry of get_gap_pvalue_info is hard
\* exactly when 0 is in hardGapsList.
C20_EmptyTimelineGap ==
    FreshOrReset =>
        /\ hardGapsList = IF distance_onlyForward(start, goal) > THRESHOLD
                          THEN <<0>> ELSE << >>
        /\ get_gap_pvalue_info[1].position = 0
        /\ get_gap_pvalue_info[1].isHard
              <=> (\E k \in 1..Len(hardGapsList) : hardGapsList[k] = 0)

\* C21: reEvaluateData called right after a reEvaluateData, or in a state left
\* by a successful mutation, changes no entry (start state, end state, offset)
\* and none of reached, totTime, hardGapsList, hardGapsCount,
\* remainingGapsDistance.
C21_ReEvaluateDataIdempotent ==
    [][(last'.op = "reEvaluateData" /\ (AfterMutation \/ last.op = "reEvaluateData"))
          => UNCHANGED <<listOfFixedInstancedAct, derivedVars>>]_vars

\* a recalculation has run on a timeline of two entries the second of which
\* starts above the end state of the first, with a hard gap left
C21_Witness ==
    /\ last.op = "reEvaluateData"
    /\ Len(timeline) >= 2
    /\ timeline[2].pValStart # timeline[1].pValEnd
    /\ hardGapsList # << >>

\* component-wise a >= b, without tolerance
AtLeast(a, b) == \A i \in 1..Len(a) : a[i] >= b[i]

\* C22: needToReach(a, b) is past b and past a, each of its components is the
\* larger of the two operands' components, and no vector below it in some
\* component and above it in none is at least a and at least b.
C22_NeedToReachIsLeastUpperBound ==
    last.op = "needToReach" =>
        LET a == args[1].a
            b == args[1].b
            m == value[1]
        IN  /\ isPast(m, b)
            /\ isPast(m, a)
            /\ Len(m) = Len(a)
            /\ \A i \in 1..Len(m) :
                  m[i] >= a[i] /\ m[i] >= b[i] /\ m[i] \in {a[i], b[i]}
            /\ \A o \in PValOperands :
                  (Len(o.a) = Len(m) /\ AtLeast(m, o.a) /\ o.a # m)
                     => ~(AtLeast(o.a, a) /\ AtLeast(o.a, b))

\* the result takes one component from each operand
C22_Witness ==
    /\ last.op = "needToReach"
    /\ Len(value[1]) = 2
    /\ value[1] # args[1].a
    /\ value[1] # args[1].b

\* the squares of the components of b - a where a is below b, summed
RECURSIVE ForwardSquares(_, _, _)
ForwardSquares(a, b, n) ==
    IF n = 0 THEN 0
    ELSE ForwardSquares(a, b, n - 1)
         + (IF a[n] < b[n] THEN (b[n] - a[n]) * (b[n] - a[n]) ELSE 0)

\* C23: distance_onlyForward(a, b) is the Euclidean norm over the components
\* where a < b (here rounded down to the ten-thousandth), is never negative and
\* is 0 exactly when a >= b in every component.
C23_DistanceOnlyForward ==
    last.op = "distance_onlyForward" =>
        LET a == args[1].a
            b == args[1].b
            d == value[1]
            squares == ForwardSquares(a, b, Len(a)) * DistScale
        IN  /\ d >= 0
            /\ d * d <= squares
            /\ (d + 1) * (d + 1) > squares
            /\ d = 0 <=> AtLeast(a, b)

\* a is above b in one component and below it in the other, and the distance
\* back is a different one
C23_Witness ==
    /\ last.op = "distance_onlyForward"
    /\ Len(args[1].a) = 2
    /\ args[1].a[1] > args[1].b[1]
    /\ args[1].a[2] < args[1].b[2]
    /\ value[1] = 100 * (args[1].b[2] - args[1].a[2])
    /\ value[1] # distance_onlyForward(args[1].b, args[1].a)

RECURSIVE ListedDistance(_)
ListedDistance(n) ==
    IF n = 0 THEN 0
    ELSE ListedDistance(n - 1) + ForwardDistanceAt(timeline, hardGapsList[n])

\* the forward distances above the threshold at the positions 0..p, summed
RECURSIVE HardDistanceUpTo(_)
HardDistanceUpTo(p) ==
    (IF ForwardDistanceAt(timeline, p) > THRESHOLD
     THEN ForwardDistanceAt(timeline, p) ELSE 0)
    + (IF p = 0 THEN 0 ELSE HardDistanceUpTo(p - 1))

\* C25: after every successful mutation remainingGapsDistance is the sum of the
\* forward distances at exactly the positions listed in hardGapsList; positions
\* at or below the threshold add nothing, and the sum is 0 when no position is
\* listed.
C25_GapDistanceIsSumOfListed ==
    AfterMutation =>
        /\ remainingGapsDistance = ListedDistance(Len(hardGapsList))
        /\ remainingGapsDistance = HardDistanceUpTo(Len(timeline))
        /\ hardGapsList = << >> => remainingGapsDistance = 0

\* a gap is listed, and another position has a distance that is not 0 and not
\* above the threshold
C25_Witness ==
    /\ AfterMutation
    /\ Len(hardGapsList) >= 1
    /\ remainingGapsDistance > 0
    /\ \E p \in 0..Len(timeline) :
          /\ ForwardDistanceAt(timeline, p) > 0
          /\ ForwardDistanceAt(timeline, p) <= THRESHOLD

\* C26: for every template with a usage count and every position, evaluateFor
\* flags the candidate tooLong exactly when the template's default time exceeds
\* tBudget - totTime, whatever the position, and a candidate flagged tooLong is
\* not takeable.
C26_TooLongIsBudgetTest ==
    \A t \in 0..(getLength - 1) : \A p \in EvalPositions :
        ~evaluateForRaises(t) =>
            /\ evaluateFor(t, p).tooLong <=> activities[t + 1].defT > tBudget - totTime
            /\ evaluateFor(t, p).tooLong => ~okeyToTake(evaluateFor(t, p))

\* the cached list of a focused gap holds a candidate that is only too long
\* (it has a score and is not exhausted) next to one that fits the budget
C26_Witness ==
    /\ last = Returned("setGapFocus", "None")
    /\ gapFocus # None
    /\ \E k \in 1..Len(currentListForSelectedGap) :
          /\ currentListForSelectedGap[k].tooLong
          /\ ~currentListForSelectedGap[k].exhausted
          /\ currentListForSelectedGap[k].myScore # None
    /\ \E k \in 1..Len(currentListForSelectedGap) :
          ~currentListForSelectedGap[k].tooLong

\* C27: for every template with a usage count and every position 0..length,
\* with the state before the position and the requirement after it,
\* evaluateFor flags noProgress and gives no score exactly when the distance
\* after the activity is at least the distance before minus 0.001; otherwise
\* the score is (distance before - distance up to the activity's start -
\* distance after) / default time, or 0 for a default time of 0. So the score
\* is missing exactly when noProgress is flagged.
C27_ScoreIsDistanceRemovedPerMinute ==
    \A t \in 0..(getLength - 1) : \A p \in 0..Len(timeline) :
        ~evaluateForRaises(t) =>
            LET c == evaluateFor(t, p)
                a == activities[t + 1]
                currentState == StateBeforePosition(timeline, p)
                target == RequirementAfterPosition(timeline, p)
                projectedStart == [k \in 1..Len(currentState) |->
                                      Max2(currentState[k], a.pcond[k])]
                projectedEnd == [k \in 1..Len(currentState) |->
                                    projectedStart[k] + get(a, a.defT)[k]]
                distBefore == distance_onlyForward(currentState, target)
                distAfter == distance_onlyForward(projectedEnd, target)
                removed == distBefore
                           - distance_onlyForward(currentState, projectedStart)
                           - distAfter
            IN  /\ c.noProgress <=> distAfter >= distBefore - NoProgressMargin
                /\ (c.myScore = None) <=> c.noProgress
                /\ ~c.noProgress =>
                      IF a.defT = 0 THEN c.myScore[1] = 0
                      ELSE c.myScore[1] * a.defT = removed * ScoreScale

\* the cached list of a focused gap holds a scored candidate whose
\* prerequisite lies above the state before the gap and the candidate of 0
\* minutes with score 0
C27_Witness ==
    /\ last = Returned("setGapFocus", "None")
    /\ gapFocus # None
    /\ gapFocus[1] >= 0
    /\ gapFocus[1] <= Len(timeline)
    /\ \E k \in 1..Len(currentListForSelectedGap) :
          /\ currentListForSelectedGap[k].myScore # None
          /\ currentListForSelectedGap[k].myActData.defT > 0
          /\ ~AtLeast(StateBeforePosition(timeline, gapFocus[1]),
                      currentListForSelectedGap[k].myActData.pcond)
    /\ \E k \in 1..Len(currentListForSelectedGap) :
          /\ currentListForSelectedGap[k].myActData.defT = 0
          /\ currentListForSelectedGap[k].myScore = Some(0)

\* the last call was a setGapFocus(position) with position >= 0 that returned
JustFocused ==
    /\ last = Returned("setGapFocus", "None")
    /\ gapFocus # None
    /\ gapFocus[1] >= 0

\* the places of the cached list marked best
MarkedBest == {k \in 1..Len(currentListForSelectedGap) : currentListForSelectedGap[k].isBest}

\* the places of the cached list whose candidate is takeable
TakeablePlaces == {k \in 1..Len(currentListForSelectedGap) : okeyToTake(currentListForSelectedGap[k])}

\* C28: after setGapFocus(position) with position >= 0 at most one cached
\* candidate is marked best; when a takeable candidate exists exactly the first
\* of the list is marked, it is takeable with a score, and no takeable
\* candidate has a higher score; when none is takeable none is marked.
C28_BestIsFirstTakeable ==
    JustFocused =>
        /\ Cardinality(MarkedBest) <= 1
        /\ TakeablePlaces # {} =>
              /\ MarkedBest = {1}
              /\ okeyToTake(currentListForSelectedGap[1])
              /\ currentListForSelectedGap[1].myScore # None
              /\ \A k \in TakeablePlaces :
                    /\ currentListForSelectedGap[k].myScore # None
                    /\ currentListForSelectedGap[k].myScore[1]
                          <= currentListForSelectedGap[1].myScore[1]
        /\ TakeablePlaces = {} => MarkedBest = {}

\* the candidate marked best is followed by a candidate that is not takeable
\* although its score is higher
C28_Witness ==
    /\ JustFocused
    /\ MarkedBest = {1}
    /\ \E k \in 1..Len(currentListForSelectedGap) :
          /\ ~okeyToTake(currentListForSelectedGap[k])
          /\ currentListForSelectedGap[k].myScore # None
          /\ currentListForSelectedGap[k].myScore[1]
                > currentListForSelectedGap[1].myScore[1]

\* C29: evaluateFor, whatever it returns, leaves the timeline, the usage
\* counts, reached, totTime, the gap state, the gap focus and the cached list
\* unchanged; setGapFocus changes only the gap focus and the cached list.
C29_EvaluationReadsOnly ==
    [][/\ last'.op = "evaluateFor" =>
             UNCHANGED <<listOfFixedInstancedAct, quantities, reached, totTime,
                         hardGapsList, hardGapsCount, remainingGapsDistance,
                         gapFocus, currentListForSelectedGap, activities>>
       /\ last'.op = "setGapFocus" =>
             UNCHANGED <<listOfFixedInstancedAct, quantities, reached, totTime,
                         hardGapsList, hardGapsCount, remainingGapsDistance,
                         activities>>]_vars

\* a candidate has been evaluated on an engine with an entry, a focused gap
\* and a cached list
C29_Witness ==
    /\ last = Returned("evaluateFor", "ContextActivity")
    /\ Len(timeline) >= 1
    /\ gapFocus # None
    /\ gapFocus[1] >= 0
    /\ currentListForSelectedGap # << >>

\* the number of timeline entries whose activity is the one at catalog index t
EntriesOf(t) ==
    Cardinality({i \in 1..Len(timeline) : timeline[i].actData = activities[t + 1]})

\* C30: while the catalog does not change, under insert, remove, exchange,
\* reset, autoAdd and autoAddFromSelectedGap every catalog index t has a usage
\* count, it equals the number of timeline entries of the activity at t, and
\* it is never negative.
C30_QuantitiesCountEntries ==
    \A t \in 0..(getLength - 1) :
        /\ t < Len(quantities)
        /\ quantities[t + 1] = EntriesOf(t)
        /\ quantities[t + 1] >= 0

\* a gap is focused and every evaluation for it returns
FocusHeld ==
    /\ gapFocus # None
    /\ gapFocus[1] >= 0
    /\ \A actIdx \in 0..(getLength - 1) : ~evaluateForRaises(actIdx)

\* C31: in every state in which a gap is focused, the cached list is the
\* ranked list setGapFocus would compute for that gap now, from the current
\* timeline, usage counts and totTime.
C31_CacheIsCurrent ==
    FocusHeld => currentListForSelectedGap = rankedEvaluations(gapFocus[1])

\* the catalog index of the activity of a timeline entry
IndexOf(actData) == CHOOSE t \in 0..(getLength - 1) : activities[t + 1] = actData

\* C32: the template a successful autoAddFromSelectedGap inserts is takeable
\* at the focused position when evaluated on the engine as it is at that call:
\* not exhausted, not too long, making progress.
C32_FocusedFillTakesTakeable ==
    [][(/\ last'.op = "autoAddFromSelectedGap"
        /\ last'.ret = "True"
        /\ \A actIdx \in 0..(getLength - 1) : ~evaluateForRaises(actIdx))
          => LET k == Clamp(gapFocus[1], Len(timeline))
                 new == timeline'[k + 1]
                 c == evaluateFor(IndexOf(new.actData), gapFocus[1])
             IN  /\ ~c.exhausted
                 /\ ~c.tooLong
                 /\ ~c.noProgress
                 /\ okeyToTake(c)]_vars

\* C33: from the empty timeline, under autoAdd and setGapFocus alone, no
\* activity with a non-negative repetition limit is counted more often than
\* its maxRepetition.
C33_FillRespectsRepetitions ==
    \A t \in 1..Len(activities) :
        (t <= Len(quantities) /\ activities[t].maxRepetition >= 0)
            => quantities[t] <= activities[t].maxRepetition

\* C34: from the empty timeline with a non-negative budget, under autoAdd and
\* setGapFocus alone, totTime never exceeds tBudget.
C34_FillRespectsBudget ==
    tBudget >= 0 => totTime <= tBudget

\* The repetitions still allowed over all activities that have a usage count:
\* the sum of max(0, maxRepetition - quantities) over the first n of them.
RECURSIVE RepetitionsLeft(_, _, _)
RepetitionsLeft(acts, counts, n) ==
    IF n = 0 THEN 0
    ELSE Max2(0, acts[n].maxRepetition - counts[n]) + RepetitionsLeft(acts, counts, n - 1)

RepetitionsLeftNow == RepetitionsLeft(activities, quantities, Min2(Len(activities), Len(quantities)))

\* C35: every successful autoAdd uses up one of the repetitions still allowed,
\* so a run of autoAdd calls succeeds at most RepetitionsLeftNow times before
\* one returns False.
C35_AutoAddUsesARepetition ==
    [][(last'.op = "autoAdd" /\ last'.ret = "True")
          => RepetitionsLeftNow' < RepetitionsLeftNow]_vars

\* The entry at position p of list l starts in the state before it, its
\* prerequisite being met there, and its effect lowers no component.
StartsWhereItStands(before, l, p) ==
    /\ l[p + 1].pValStart = (IF p = 0 THEN start ELSE before[p].pValEnd)
    /\ AtLeast(l[p + 1].pValEnd, l[p + 1].pValStart)

\* C36 as stated: a successful autoAdd never increases remainingGapsDistance.
C36_AutoAddNeverWidens ==
    [][(last'.op = "autoAdd" /\ last'.ret = "True")
          => remainingGapsDistance' <= remainingGapsDistance]_vars

\* C36, amended: a successful autoAdd never increases remainingGapsDistance
\* when the prerequisite of the activity it inserts is already met by the
\* state before the worst gap and its effect lowers no component.
C36_AutoAddOnMetPrerequisiteNeverWidens ==
    [][(/\ last'.op = "autoAdd"
        /\ last'.ret = "True"
        /\ StartsWhereItStands(timeline, timeline', saved'[1].position))
          => remainingGapsDistance' <= remainingGapsDistance]_vars

C36_Witness ==
    /\ last = Returned("autoAdd", "True")
    /\ StartsWhereItStands(saved[1].before.listOfFixedInstancedAct, timeline,
                           saved[1].position)
    /\ Len(timeline) >= 2
    /\ remainingGapsDistance < saved[1].before.remainingGapsDistance

\* C37 as stated: after a mutation, when hardGapsList is empty the goalReached
\* test of to_dict passes, reached.isPast(goal).
C37_NoGapsMeansGoalReached ==
    (AfterMutation /\ hardGapsList = << >>) => isPast(reached, goal)

\* C37, amended: after a mutation, when hardGapsList is empty the forward
\* distance from reached to goal is at most THRESHOLD.
C37_NoGapsMeansGoalWithinThreshold ==
    (AfterMutation /\ hardGapsList = << >>)
        => distance_onlyForward(reached, goal) <= THRESHOLD

C37_Witness ==
    /\ AfterMutation
    /\ hardGapsList = << >>
    /\ ~isPast(reached, goal)
    /\ distance_onlyForward(reached, goal) > 0

\* C38: once the catalog has grown past the usage counts, an insert either
\* returns True, the entry placed, counted and the derived state recomputed, or
\* leaves the timeline and every other field of the engine as they were.
C38_InsertIsAllOrNothing ==
    [][(last'.op = "insert" /\ Len(activities) > Len(quantities))
          => \/ /\ last'.ret = "True"
                /\ Len(timeline') = Len(timeline) + 1
                /\ \E t \in 1..Len(quantities) :
                      quantities' = [quantities EXCEPT ![t] = @ + 1]
             \/ UNCHANGED engineVars]_vars

====
